---------------------------- MODULE Spec2Model ----------------------------
(***************************************************************************)
(* A model of the CSS development proxy (src/lib/css-proxy-server.js).     *)
(*                                                                         *)
(* Strings are sequences of tokens ("/", ".", "css", "header", ...): every *)
(* string operation of the code (endsWith, includes, replace, split/pop,   *)
(* startsWith) is computed on those sequences.  No token is a substring of *)
(* another one, so the token-level result is the character-level result.   *)
(*                                                                         *)
(* One step of the model is one run-to-completion task of the JavaScript   *)
(* event loop: a middleware chain, the continuation of an await, a stream  *)
(* callback.  The filesystem is external and changes between any two       *)
(* steps (and, where the code reads it twice, inside a step).              *)
(***************************************************************************)
EXTENDS Integers, Sequences, FiniteSets, Bags, TLC

(***************************************************************************)
(* Bounds of the model.                                                    *)
(***************************************************************************)
\* file contents are 1..MaxVer; 0 is "no such file"
MaxVer == 2
\* file contents while builds are followed: a build never reads content
MaxBuildVer == 1
\* buildCSSMapping runs that may be in flight together
MaxBuilds == 2
\* watcher 'change' events not yet delivered
MaxEvents == 1

(***************************************************************************)
(* String operations.                                                      *)
(***************************************************************************)
\* String.prototype.startsWith
StartsWith(s, t) == Len(s) >= Len(t) /\ SubSeq(s, 1, Len(t)) = t

\* String.prototype.endsWith
EndsWith(s, t) == Len(s) >= Len(t) /\ SubSeq(s, Len(s) - Len(t) + 1, Len(s)) = t

\* String.prototype.includes
Includes(s, t) == \E i \in 1..(Len(s) - Len(t) + 1) : SubSeq(s, i, i + Len(t) - 1) = t

\* the index of the first occurrence of t in s, 0 when there is none (indexOf + 1)
IndexOf(s, t) ==
  IF Includes(s, t)
  THEN CHOOSE i \in 1..(Len(s) - Len(t) + 1) :
         /\ SubSeq(s, i, i + Len(t) - 1) = t
         /\ \A j \in 1..(i - 1) : SubSeq(s, j, j + Len(t) - 1) # t
  ELSE 0

\* the index of the last "/" of s, 0 when there is none
LastSlash(s) ==
  IF \E i \in 1..Len(s) : s[i] = "/"
  THEN CHOOSE i \in 1..Len(s) : s[i] = "/" /\ \A j \in (i + 1)..Len(s) : s[j] # "/"
  ELSE 0

\* s.split('/').pop(): what follows the last "/"
LastSegment(s) == SubSeq(s, LastSlash(s) + 1, Len(s))

CssExt == <<".", "css">>

\* s.replace(/\.css$/, '')
StripCssExt(s) == IF EndsWith(s, CssExt) THEN SubSeq(s, 1, Len(s) - 2) ELSE s

\* s.replace(/^\//, '')
StripLeadingSlash(s) == IF Len(s) > 0 /\ s[1] = "/" THEN Tail(s) ELSE s

(***************************************************************************)
(* Paths and the filesystem.                                               *)
(***************************************************************************)
\* this.baseDir
BaseDir == <<"/", "base">>

\* a leading "./" of a relative path disappears when the path is resolved
StripDotSlash(p) == IF StartsWith(p, <<".", "/">>) THEN SubSeq(p, 3, Len(p)) ELSE p

\* path.resolve(base, p): an absolute p stands, a relative one is joined to base
PathResolve(base, p) ==
  IF Len(p) > 0 /\ p[1] = "/" THEN p ELSE base \o <<"/">> \o StripDotSlash(p)

\* the stylesheet files that may exist, as glob reports them (relative to baseDir,
\* without a leading "./")
FHeader == <<"src", "/", "header", "/", "style", ".", "css">>
FNav == <<"src", "/", "header", "/", "nav", "/", "menu", ".", "css">>
RelFiles == {FHeader, FNav}
AbsFiles == {PathResolve(BaseDir, f) : f \in RelFiles}

\* fs.existsSync
ExistsSync(disk, p) == p \in DOMAIN disk /\ disk[p] > 0

\* a read that answers with what the file held first, whatever it holds now
ReadFirstContent(disk, p) == 1

\* fs.readFileSync(p, 'utf-8') of an existing file
ReadFileSync(disk, p) == disk[p]

(***************************************************************************)
(* The options of the constructor.                                         *)
(***************************************************************************)
\* options.cssMappings, in Object.entries order: <<request path, local path>>
NoMappings == <<>>
MapHeaderToNav ==
  << << <<"/", "assets", "/", "css", "/", "header", ".", "css">>,
        <<".", "/", "src", "/", "header", "/", "nav", "/", "menu", ".", "css">> >> >>
MapThemeAndCss ==
  << << <<"/", "theme", "/", "main", ".", "css">>,
        <<".", "/", "src", "/", "header", "/", "nav", "/", "menu", ".", "css">> >>,
     << <<"/", "css", "/", "header", ".", "css">>,
        <<"src", "/", "header", "/", "style", ".", "css">> >> >>
ConfigMappings == {NoMappings, MapHeaderToNav, MapThemeAndCss}

\* options.sourceFolder: the README's "./src" (the default) and the bare "src"
SourceFolders == {<<"src">>, <<".", "/", "src">>}

Options ==
  [cssMappings : ConfigMappings, sourceFolder : SourceFolders, watchCSS : BOOLEAN,
   injectCSSReload : BOOLEAN]

\* the options of a server created with productionUrl alone
DefaultOptions ==
  [cssMappings |-> NoMappings, sourceFolder |-> <<".", "/", "src">>, watchCSS |-> TRUE,
   injectCSSReload |-> TRUE]

\* options.productionUrl
ProductionUrl == "https://shop.example"

(***************************************************************************)
(* The mapping table: a JavaScript Map, i.e. entries in insertion order.   *)
(***************************************************************************)
MapHas(m, k) == \E i \in 1..Len(m) : m[i].key = k

MapIndex(m, k) == CHOOSE i \in 1..Len(m) : m[i].key = k

MapGet(m, k) == m[MapIndex(m, k)].target

\* Map.prototype.set: a present key keeps its place and takes the new value
MapSet(m, k, v) ==
  IF MapHas(m, k)
  THEN [m EXCEPT ![MapIndex(m, k)] = [key |-> k, target |-> v]]
  ELSE Append(m, [key |-> k, target |-> v])

MapKeys(m) == {m[i].key : i \in 1..Len(m)}


(***************************************************************************)
(* findCSSFiles and buildCSSMapping.                                       *)
(***************************************************************************)
\* the files the pattern `${sourceFolder}/**/*.css` matches under baseDir
GlobMatches(disk, sf) ==
  {f \in RelFiles :
     /\ ExistsSync(disk, PathResolve(BaseDir, f))
     /\ StartsWith(f, StripDotSlash(sf) \o <<"/">>)
     /\ EndsWith(f, CssExt)}

\* every order in which glob may report them: it promises none
GlobOrders(disk, sf) ==
  LET S == GlobMatches(disk, sf)
  IN {q \in [1..Cardinality(S) -> S] : \A i, j \in 1..Cardinality(S) : q[i] = q[j] => i = j}

\* whether the regular expression `${sourceFolder}/([^/]+)/` matches file at i
FolderMatchAt(file, sf, i) ==
  LET a == i + Len(sf)
  IN /\ a + 2 <= Len(file)
     /\ SubSeq(file, i, a - 1) = sf
     /\ file[a] = "/"
     /\ file[a + 1] # "/"
     /\ \E j \in (a + 2)..Len(file) : file[j] = "/"

\* file.match(...): the leftmost match, its group 1; matched is FALSE for null
FolderOf(file, sf) ==
  IF \E i \in 1..Len(file) : FolderMatchAt(file, sf, i)
  THEN LET i == CHOOSE k \in 1..Len(file) :
                  FolderMatchAt(file, sf, k) /\ \A l \in 1..(k - 1) : ~FolderMatchAt(file, sf, l)
           a == i + Len(sf)
           j == CHOOSE k \in (a + 2)..Len(file) :
                  file[k] = "/" /\ \A l \in (a + 2)..(k - 1) : file[l] # "/"
       IN [matched |-> TRUE, folder |-> SubSeq(file, a + 1, j - 1)]
  ELSE [matched |-> FALSE, folder |-> <<>>]

\* the production paths guessed for a folder
Patterns(folder) ==
  << <<"/", "assets", "/", "css", "/">> \o folder \o CssExt,
     <<"/", "assets", "/", "css", "/", "styles", ".">> \o folder \o CssExt,
     <<"/", "css", "/">> \o folder \o CssExt,
     <<"/", "styles", "/">> \o folder \o CssExt,
     <<"/", "dist", "/", "styles", ".">> \o folder \o CssExt >>

\* a configured mapping that is added whether or not its file exists
AddExplicitUnchecked(m, entry, disk) == MapSet(m, entry[1], PathResolve(BaseDir, entry[2]))

\* one configured mapping: added when its file exists, skipped otherwise
AddExplicit(m, entry, disk) ==
  LET resolvedPath == PathResolve(BaseDir, entry[2])
  IN IF ExistsSync(disk, resolvedPath) THEN MapSet(m, entry[1], resolvedPath) ELSE m

RECURSIVE AddExplicitFrom(_, _, _, _)
AddExplicitFrom(m, entries, i, disk) ==
  IF i > Len(entries) THEN m
  ELSE AddExplicitFrom(AddExplicit(m, entries[i], disk), entries, i + 1, disk)

\* a guessed path that is set whether or not the key is there
AddPatternAlways(m, pattern, resolvedFile) == MapSet(m, pattern, resolvedFile)

\* one guessed path: added only when the table has no such key yet
AddPattern(m, pattern, resolvedFile) ==
  IF ~MapHas(m, pattern) THEN MapSet(m, pattern, resolvedFile) ELSE m

RECURSIVE AddPatternsFrom(_, _, _, _)
AddPatternsFrom(m, patterns, i, resolvedFile) ==
  IF i > Len(patterns) THEN m
  ELSE AddPatternsFrom(AddPattern(m, patterns[i], resolvedFile), patterns, i + 1, resolvedFile)

\* a discovered file whose guessed paths are set whether or not the keys are there
AddAutoOverwriting(m, file, sf) ==
  LET match == FolderOf(file, sf)
      p == Patterns(match.folder)
      f == PathResolve(BaseDir, file)
  IN IF match.matched
     THEN MapSet(MapSet(MapSet(MapSet(MapSet(m, p[1], f), p[2], f), p[3], f), p[4], f), p[5], f)
     ELSE m

\* one discovered file
AddAuto(m, file, sf) ==
  LET match == FolderOf(file, sf)
  IN IF match.matched
     THEN AddPatternsFrom(m, Patterns(match.folder), 1, PathResolve(BaseDir, file))
     ELSE m

RECURSIVE AddAutoFrom(_, _, _, _)
AddAutoFrom(m, cssFiles, i, sf) ==
  IF i > Len(cssFiles) THEN m
  ELSE AddAutoFrom(AddAuto(m, cssFiles[i], sf), cssFiles, i + 1, sf)

\* the table buildCSSMapping leaves after clear(): the configured mappings, then
\* the guessed ones
BuildTable(o, cssFiles, disk) ==
  AddAutoFrom(AddExplicitFrom(<<>>, o.cssMappings, 1, disk), cssFiles, 1, o.sourceFolder)

\* a local path that is no string (null in the configuration file)
NullPath == <<"<null>">>

\* a configuration with such a path: path.resolve throws a TypeError on it
MapThemeThenNull ==
  << << <<"/", "theme", "/", "main", ".", "css">>,
        <<".", "/", "src", "/", "header", "/", "nav", "/", "menu", ".", "css">> >>,
     << <<"/", "css", "/", "header", ".", "css">>, NullPath >> >>

\* the first configured mapping at which resolve(this.baseDir, localPath)
\* throws, 0 when none does
ThrowsAt(entries) ==
  IF \E i \in 1..Len(entries) : entries[i][2] = NullPath
  THEN CHOOSE i \in 1..Len(entries) :
         entries[i][2] = NullPath /\ \A j \in 1..(i - 1) : entries[j][2] # NullPath
  ELSE 0

\* the table as the throw leaves it: cleared, then the mappings before the one
\* that threw
TableAtThrow(o, disk) ==
  AddExplicitFrom(<<>>, SubSeq(o.cssMappings, 1, ThrowsAt(o.cssMappings) - 1), 1, disk)

\* a clear() that comes before the await
ClearedBeforeScan(m) == <<>>

\* the table while findCSSFiles is awaited: clear() comes only after the await
TableDuringScan(m) == m

(***************************************************************************)
(* The CSS middleware and what follows it in the chain.                    *)
(***************************************************************************)
\* the test of the partial tier for one entry
PartialMatch(urlPath, pattern) ==
  \/ Includes(urlPath, StripCssExt(pattern))
  \/ EndsWith(urlPath, LastSegment(pattern))

\* the entries the partial tier serves from: they match and their file exists
PartialHits(urlPath, m, disk) ==
  {i \in 1..Len(m) : PartialMatch(urlPath, m[i].key) /\ ExistsSync(disk, m[i].target)}

\* resolve(baseDir, sourceFolder, urlPath without its leading slash)
DirectPath(urlPath, sf) ==
  PathResolve(PathResolve(BaseDir, sf), StripLeadingSlash(urlPath))

NoFile == <<>>

\* the tiers with the partial one tried before the exact one
MatchResolvePartialFirst(urlPath, m, disk, sf) ==
  IF PartialHits(urlPath, m, disk) # {}
  THEN LET i == CHOOSE k \in PartialHits(urlPath, m, disk) :
                  \A l \in PartialHits(urlPath, m, disk) : k <= l
       IN [tier |-> "partial", file |-> m[i].target, tried |-> <<"partial">>]
  ELSE IF MapHas(m, urlPath) /\ ExistsSync(disk, MapGet(m, urlPath))
  THEN [tier |-> "exact", file |-> MapGet(m, urlPath), tried |-> <<"partial", "exact">>]
  ELSE IF ExistsSync(disk, DirectPath(urlPath, sf)) /\ EndsWith(DirectPath(urlPath, sf), CssExt)
  THEN [tier |-> "direct", file |-> DirectPath(urlPath, sf),
        tried |-> <<"partial", "exact", "direct">>]
  ELSE [tier |-> "none", file |-> NoFile, tried |-> <<"partial", "exact", "direct">>]

\* the tiers with the partial one serving from the last entry that hits
MatchResolveLastPartial(urlPath, m, disk, sf) ==
  IF MapHas(m, urlPath) /\ ExistsSync(disk, MapGet(m, urlPath))
  THEN [tier |-> "exact", file |-> MapGet(m, urlPath), tried |-> <<"exact">>]
  ELSE IF PartialHits(urlPath, m, disk) # {}
  THEN LET i == CHOOSE k \in PartialHits(urlPath, m, disk) :
                  \A l \in PartialHits(urlPath, m, disk) : k >= l
       IN [tier |-> "partial", file |-> m[i].target, tried |-> <<"exact", "partial">>]
  ELSE IF ExistsSync(disk, DirectPath(urlPath, sf)) /\ EndsWith(DirectPath(urlPath, sf), CssExt)
  THEN [tier |-> "direct", file |-> DirectPath(urlPath, sf),
        tried |-> <<"exact", "partial", "direct">>]
  ELSE [tier |-> "none", file |-> NoFile, tried |-> <<"exact", "partial", "direct">>]

\* the exact and the partial tier alone
MatchResolveNoDirect(urlPath, m, disk, sf) ==
  IF MapHas(m, urlPath) /\ ExistsSync(disk, MapGet(m, urlPath))
  THEN [tier |-> "exact", file |-> MapGet(m, urlPath), tried |-> <<"exact">>]
  ELSE IF PartialHits(urlPath, m, disk) # {}
  THEN LET i == CHOOSE k \in PartialHits(urlPath, m, disk) :
                  \A l \in PartialHits(urlPath, m, disk) : k <= l
       IN [tier |-> "partial", file |-> m[i].target, tried |-> <<"exact", "partial">>]
  ELSE [tier |-> "none", file |-> NoFile, tried |-> <<"exact", "partial">>]

\* the three tiers, for a path that ends in ".css"
MatchResolve(urlPath, m, disk, sf) ==
  IF MapHas(m, urlPath) /\ ExistsSync(disk, MapGet(m, urlPath))
  THEN [tier |-> "exact", file |-> MapGet(m, urlPath), tried |-> <<"exact">>]
  ELSE IF PartialHits(urlPath, m, disk) # {}
  THEN LET i == CHOOSE k \in PartialHits(urlPath, m, disk) :
                  \A l \in PartialHits(urlPath, m, disk) : k <= l
       IN [tier |-> "partial", file |-> m[i].target, tried |-> <<"exact", "partial">>]
  ELSE IF ExistsSync(disk, DirectPath(urlPath, sf)) /\ EndsWith(DirectPath(urlPath, sf), CssExt)
  THEN [tier |-> "direct", file |-> DirectPath(urlPath, sf),
        tried |-> <<"exact", "partial", "direct">>]
  ELSE [tier |-> "none", file |-> NoFile, tried |-> <<"exact", "partial", "direct">>]

\* the headers of a locally served stylesheet
LocalHeaders ==
  [contentType |-> "text/css", cacheControl |-> "no-cache, no-store, must-revalidate",
   pragma |-> "no-cache", expires |-> "0"]

NoHeaders == [contentType |-> "", cacheControl |-> "", pragma |-> "", expires |-> ""]

JsonHeaders == [NoHeaders EXCEPT !.contentType = "application/json"]

\* Express matches a route without regard to case or to one trailing slash
Lower(tok) == IF tok = "PROXY-TEST" THEN "proxy-test" ELSE tok

StatusPath == <<"/", "proxy-test">>

RouteMatches(path) ==
  LET p == IF Len(path) > 1 /\ path[Len(path)] = "/" THEN SubSeq(path, 1, Len(path) - 1) ELSE path
  IN [i \in 1..Len(p) |-> Lower(p[i])] = StatusPath

\* a skip list that names the status path alone
SkipsProxyStatusOnly(path) == path = StatusPath

\* the paths the proxy middleware hands to next() instead of the proxy
SkipsProxy(path) ==
  \/ path = StatusPath
  \/ path = <<"/", "favicon", ".", "ico">>
  \/ StartsWith(path, <<"/", "_next", "/">>)

\* a status route that answers every method
AfterCssAnyMethod(method, path) ==
  IF RouteMatches(path) THEN "status"
  ELSE IF SkipsProxy(path) THEN "notfound"
  ELSE "forward"

\* after the CSS middleware called next(): the status route, then the proxy
\* middleware; a request no handler answers gets Express's 404
AfterCss(method, path) ==
  IF method = "GET" /\ RouteMatches(path) THEN "status"
  ELSE IF SkipsProxy(path) THEN "notfound"
  ELSE "forward"

(***************************************************************************)
(* The state of the server.                                                *)
(***************************************************************************)
VARIABLES
  opts,         \* this.options
  fs,           \* the disk: absolute path -> content, 0 when there is no file
  cssMappings,  \* this.cssMappings
  pending,      \* the buildCSSMapping runs awaiting findCSSFiles: a bag of scan results
  phase,        \* "new" after the constructor, "starting" in start(), then "listening"
  events,       \* 'change' events chokidar has not delivered yet
  complete,     \* history: the table as the last finished build left it
  sameDisk,     \* history: the last finished build scanned and read the disk as it is now
  resp,         \* the response to the request handled in the last step, if one was
  probe,        \* testProductionConnection: "none", "pending", then its outcome
  quiet,        \* history: the disk is as it was when the last 'change' event was raised
  unseen,       \* history: the watched disk changed and no build has started since
  px,           \* where the forwarded exchange is: "idle", "connecting", "streaming", ...
  upstream,     \* the upstream's response: its headers, the chunks still to come
  res,          \* the response object of the forwarded request
  patched,      \* whether onProxyRes replaced res.write and res.end
  body,         \* the body variable of onProxyRes's closure
  buffered,     \* history: body as res.end found it, before any replacement
  received,     \* history: the bytes handed to res.write and res.end so far
  failure,      \* history: the step of the patched res.end that threw, if one did
  errored,      \* history: onError ran for this exchange
  logLevel,     \* this.options.logLevel
  console,      \* what console.log was given, in order
  logged        \* history: the calls of log, in order

serverVars ==
  <<opts, fs, cssMappings, pending, phase, events, complete, sameDisk, resp, probe, quiet,
    unseen>>

proxyVars == <<px, upstream, res, patched, body, buffered, received, failure, errored>>

logVars == <<logLevel, console, logged>>

vars == <<opts, fs, cssMappings, pending, phase, events, complete, sameDisk, resp, probe, quiet,
          unseen,
          px, upstream, res, patched, body, buffered, received, failure, errored,
          logLevel, console, logged>>

\* the request paths tried
PAssetsHeader == <<"/", "assets", "/", "css", "/", "header", ".", "css">>
PCssHeader == <<"/", "css", "/", "header", ".", "css">>
PMyHeader == <<"/", "x", "/", "my", "header", ".", "css">>
PHeaderStyle == <<"/", "header", "/", "style", ".", "css">>
PVendor == <<"/", "vendor", "/", "lib", ".", "css">>
PIndex == <<"/", "index", ".", "html">>
PStatusSlash == <<"/", "proxy-test", "/">>
PStatusUpper == <<"/", "PROXY-TEST">>
PFavicon == <<"/", "favicon", ".", "ico">>
PNextCss == <<"/", "_next", "/", "app", ".", "css">>
PNextJs == <<"/", "_next", "/", "app", ".", "js">>
PNextHeader == <<"/", "_next", "/", "header", ".", "css">>

Paths ==
  {PAssetsHeader, PCssHeader, PMyHeader, PHeaderStyle, PVendor, PIndex, StatusPath,
   PStatusSlash, PStatusUpper, PFavicon, PNextCss, PNextJs, PNextHeader}

Requests == ({"GET"} \X Paths) \cup ({"POST"} \X {StatusPath, PIndex})

NoResp ==
  [method |-> "", path |-> <<>>, kind |-> "none", status |-> 0, tier |-> "none",
   file |-> NoFile, body |-> 0, headers |-> NoHeaders, tried |-> <<>>]

\* a response object nothing has touched yet
FreshRes ==
  [status |-> 0, headers |-> [NoHeaders EXCEPT !.contentType = <<>>], contentLength |-> -1,
   headersSent |-> FALSE, sent |-> <<>>, finished |-> FALSE]

NoUpstream ==
  [contentType |-> <<>>, contentLength |-> -1, cacheControl |-> "", pragma |-> "", expires |-> "",
   chunks |-> <<>>]

\* no exchange with the upstream is under way
ProxyIdle ==
  /\ px = "idle"
  /\ upstream = NoUpstream
  /\ res = FreshRes
  /\ patched = FALSE
  /\ body = <<>>
  /\ buffered = <<>>
  /\ received = <<>>
  /\ failure = "none"
  /\ errored = FALSE

\* nothing has been logged; logLevel is the constructor's default
LogIdle ==
  /\ logLevel = "info"
  /\ console = <<>>
  /\ logged = <<>>

\* after the constructor
Init ==
  /\ opts \in {o \in Options : o.injectCSSReload}
  /\ fs \in [AbsFiles -> 0..MaxBuildVer]
  /\ cssMappings = <<>>
  /\ pending = EmptyBag
  /\ phase = "new"
  /\ events = 0
  /\ complete = <<>>
  /\ sameDisk = FALSE
  /\ resp = NoResp
  /\ probe = "none"
  /\ quiet = FALSE
  /\ unseen = FALSE
  /\ ProxyIdle
  /\ LogIdle

(***************************************************************************)
(* The disk changes under the server.                                      *)
(***************************************************************************)
\* the watcher runs, so that a change of the disk concerns it
Noticed == (phase = "listening" /\ opts.watchCSS) \/ unseen

\* a stylesheet is saved, with new content or the same; chokidar reports
\* 'change' when the watcher runs
FileEdit(f, v) ==
  /\ fs[f] > 0 /\ v > 0
  /\ sameDisk' = (sameDisk /\ v = fs[f])
  /\ LET watching == phase = "listening" /\ opts.watchCSS
     IN /\ watching => events < MaxEvents
        /\ events' = IF watching THEN events + 1 ELSE events
  /\ fs' = [fs EXCEPT ![f] = v]
  /\ UNCHANGED <<opts, cssMappings, pending, phase, complete>>
  /\ resp' = NoResp
  /\ quiet' = (phase = "listening" /\ opts.watchCSS)
  /\ unseen' = Noticed
  /\ UNCHANGED probe
  /\ UNCHANGED <<proxyVars, logVars>>

\* a stylesheet appears: 'add', which the watcher does not listen to
FileCreate(f, v) ==
  /\ fs[f] = 0 /\ v > 0
  /\ sameDisk' = FALSE
  /\ fs' = [fs EXCEPT ![f] = v]
  /\ UNCHANGED <<opts, cssMappings, pending, phase, events, complete>>
  /\ resp' = NoResp
  /\ quiet' = FALSE
  /\ unseen' = Noticed
  /\ UNCHANGED probe
  /\ UNCHANGED <<proxyVars, logVars>>

\* a stylesheet disappears: 'unlink', which the watcher does not listen to
FileDelete(f) ==
  /\ fs[f] > 0
  /\ sameDisk' = FALSE
  /\ fs' = [fs EXCEPT ![f] = 0]
  /\ UNCHANGED <<opts, cssMappings, pending, phase, events, complete>>
  /\ resp' = NoResp
  /\ quiet' = FALSE
  /\ unseen' = Noticed
  /\ UNCHANGED probe
  /\ UNCHANGED <<proxyVars, logVars>>

(***************************************************************************)
(* start(), the watcher and buildCSSMapping.                               *)
(***************************************************************************)
\* buildCSSMapping up to its await: findCSSFiles is running and will report
\* the files in this order
BeginBuild(order) ==
  /\ BagCardinality(pending) < MaxBuilds
  /\ pending' = pending (+) SetToBag({order})
  /\ cssMappings' = TableDuringScan(cssMappings)

\* start() calls buildCSSMapping and awaits it
Start(order) ==
  /\ phase = "new"
  /\ BeginBuild(order)
  /\ phase' = "starting"
  /\ UNCHANGED <<opts, fs, events, complete, sameDisk>>
  /\ resp' = NoResp
  /\ UNCHANGED <<probe, quiet, unseen>>
  /\ UNCHANGED <<proxyVars, logVars>>

\* the watcher's 'change' callback calls buildCSSMapping and does not await it
WatcherChange(order) ==
  /\ phase = "listening"
  /\ events > 0
  /\ BeginBuild(order)
  /\ events' = events - 1
  /\ UNCHANGED <<opts, fs, phase, complete, sameDisk>>
  /\ resp' = NoResp
  /\ unseen' = FALSE
  /\ UNCHANGED <<probe, quiet>>
  /\ UNCHANGED <<proxyVars, logVars>>

\* start() goes on once its build has settled, whichever way: the middlewares,
\* the watcher, listen()
Settled == IF phase = "starting" THEN "listening" ELSE phase

\* start() then calls testProductionConnection and does not await it
Launched == IF phase = "starting" THEN "pending" ELSE probe

\* the rest of buildCSSMapping, in one piece: clear(), the configured mappings,
\* the guessed ones
FinishBuild(order) ==
  /\ BagIn(order, pending)
  /\ cssMappings' = BuildTable(opts, order, fs)
  /\ complete' = cssMappings'
  /\ sameDisk' = (order \in GlobOrders(fs, opts.sourceFolder))
  /\ pending' = pending (-) SetToBag({order})
  /\ phase' = Settled
  /\ UNCHANGED <<opts, fs, events>>
  /\ resp' = NoResp
  /\ probe' = Launched
  /\ UNCHANGED <<quiet, unseen>>
  /\ UNCHANGED <<proxyVars, logVars>>

\* findCSSFiles rejects: buildCSSMapping throws at its await, the caller logs
FailScan(order) ==
  /\ BagIn(order, pending)
  /\ pending' = pending (-) SetToBag({order})
  /\ phase' = Settled
  /\ UNCHANGED <<opts, fs, cssMappings, events, complete, sameDisk>>
  /\ resp' = NoResp
  /\ probe' = Launched
  /\ UNCHANGED <<quiet, unseen>>
  /\ UNCHANGED <<proxyVars, logVars>>

\* buildCSSMapping throws while it inserts the configured mappings, after its
\* clear(); start() and the watcher's callback catch and log
FailInsert(order) ==
  /\ BagIn(order, pending)
  /\ ThrowsAt(opts.cssMappings) # 0
  /\ cssMappings' = TableAtThrow(opts, fs)
  /\ pending' = pending (-) SetToBag({order})
  /\ phase' = Settled
  /\ sameDisk' = FALSE
  /\ UNCHANGED <<opts, fs, events, complete>>
  /\ resp' = NoResp
  /\ probe' = Launched
  /\ UNCHANGED <<quiet, unseen>>
  /\ UNCHANGED <<proxyVars, logVars>>

\* the ways the probe ends; one that never completes stays "pending"
ProbeOutcomes == {"reached", "error", "timeout"}

\* the probe's response, 'error' or 'timeout' handler runs: it logs
ProbeSettles(outcome) ==
  /\ probe = "pending"
  /\ probe' = outcome
  /\ resp' = NoResp
  /\ UNCHANGED <<opts, fs, cssMappings, pending, phase, events, complete, sameDisk, quiet,
                  unseen>>
  /\ UNCHANGED <<proxyVars, logVars>>

(***************************************************************************)
(* A request runs through the middleware chain.                            *)
(***************************************************************************)
\* the response of the CSS middleware when a tier hit and the file was read
LocalResponse(method, path, r, disk) ==
  [method |-> method, path |-> path, kind |-> "local", status |-> 200, tier |-> r.tier,
   file |-> r.file, body |-> ReadFileSync(disk, r.file), headers |-> LocalHeaders,
   tried |-> r.tried]

\* readFileSync threw: the error middleware answers 500
ErrorResponse(method, path, r) ==
  [method |-> method, path |-> path, kind |-> "error", status |-> 500, tier |-> r.tier,
   file |-> r.file, body |-> 0, headers |-> JsonHeaders, tried |-> r.tried]

\* the CSS middleware called next()
NextResponse(method, path, tried) ==
  LET k == AfterCss(method, path)
  IN [method |-> method, path |-> path, kind |-> k,
      status |-> IF k = "status" THEN 200 ELSE IF k = "notfound" THEN 404 ELSE 0,
      tier |-> "none", file |-> NoFile, body |-> 0,
      headers |-> IF k = "status" THEN JsonHeaders ELSE NoHeaders, tried |-> tried]

\* a handler that keeps the file a direct hit found under the request path
RememberDirectHit(m, path, tier, file) ==
  IF tier = "direct" THEN MapSet(m, path, file) ELSE m

\* the table after the handler ran: it calls has, get and entries on the Map,
\* nothing that writes
TableAfterRequest(m, path, tier, file) == m

\* one request; gone says that the file was deleted between existsSync and
\* readFileSync
HandleRequest(method, path, gone) ==
  /\ phase = "listening"
  /\ IF EndsWith(path, CssExt)
     THEN LET r == MatchResolve(path, cssMappings, fs, opts.sourceFolder)
          IN IF r.tier = "none"
             THEN /\ ~gone
                  /\ resp' = NextResponse(method, path, r.tried)
                  /\ fs' = fs
             ELSE IF gone
             THEN /\ resp' = ErrorResponse(method, path, r)
                  /\ fs' = [fs EXCEPT ![r.file] = 0]
             ELSE /\ resp' = LocalResponse(method, path, r, fs)
                  /\ fs' = fs
     ELSE /\ ~gone
          /\ resp' = NextResponse(method, path, <<>>)
          /\ fs' = fs
  /\ sameDisk' = (sameDisk /\ fs' = fs)
  /\ quiet' = (quiet /\ fs' = fs)
  /\ unseen' = IF fs' = fs THEN unseen ELSE Noticed
  /\ cssMappings' = TableAfterRequest(cssMappings, path, resp'.tier, resp'.file)
  /\ UNCHANGED <<opts, pending, phase, events, complete, probe>>
  /\ UNCHANGED <<proxyVars, logVars>>

\* the disk changes
DiskStep ==
  \/ \E f \in AbsFiles, v \in 1..MaxVer : FileEdit(f, v)
  \/ \E f \in AbsFiles, v \in 1..MaxVer : FileCreate(f, v)
  \/ \E f \in AbsFiles : FileDelete(f)

\* the disk changes while builds are followed
DiskStepBuild ==
  \/ \E f \in AbsFiles, v \in 1..MaxBuildVer : FileEdit(f, v)
  \/ \E f \in AbsFiles, v \in 1..MaxBuildVer : FileCreate(f, v)
  \/ \E f \in AbsFiles : FileDelete(f)

\* the requests sent while builds come and go
BuildTimeRequests == {<<"GET", PCssHeader>>}

Next ==
  \/ DiskStepBuild
  \/ \E order \in GlobOrders(fs, opts.sourceFolder) : Start(order)
  \/ \E order \in GlobOrders(fs, opts.sourceFolder) : WatcherChange(order)
  \/ \E order \in BagToSet(pending) : FinishBuild(order)
  \/ \E order \in BagToSet(pending) : FailScan(order)
  \/ \E rq \in BuildTimeRequests : HandleRequest(rq[1], rq[2], FALSE)

Spec == Init /\ [][Next]_vars

\* a build in flight settles: its scan resolves or rejects and the rest of
\* buildCSSMapping runs
BuildSettles == \E order \in BagToSet(pending) : pending' = pending (-) SetToBag({order})

\* the event loop runs what is due: chokidar's 'change' callback is called for
\* an event it raised, and a scan that was started settles
SpecLive ==
  /\ Init /\ [][Next]_vars
  /\ WF_vars(\E order \in GlobOrders(fs, opts.sourceFolder) : WatcherChange(order))
  /\ WF_pending(BuildSettles)

(***************************************************************************)
(* The server at rest: started without a watcher, so the table is whatever *)
(* start() built from some scan and some disk, and requests of every kind  *)
(* arrive while the disk goes on changing.                                 *)
(***************************************************************************)
Disks == [AbsFiles -> 0..MaxVer]

\* the tables a build can leave: the scan saw one disk, the insertion another
BuiltTables(o) ==
  {BuildTable(o, order, d2) :
     order \in UNION {GlobOrders(d1, o.sourceFolder) : d1 \in [AbsFiles -> 0..1]},
     d2 \in [AbsFiles -> 0..1]}

InitServe ==
  /\ opts \in {o \in Options : o.injectCSSReload /\ ~o.watchCSS}
  /\ fs \in Disks
  /\ cssMappings \in BuiltTables(opts)
  /\ complete = cssMappings
  /\ sameDisk = FALSE
  /\ pending = EmptyBag
  /\ phase = "listening"
  /\ events = 0
  /\ resp = NoResp
  /\ probe = "pending"
  /\ quiet = FALSE
  /\ unseen = FALSE
  /\ ProxyIdle
  /\ LogIdle

NextServe ==
  \/ DiskStep
  \/ \E rq \in Requests, gone \in BOOLEAN : HandleRequest(rq[1], rq[2], gone)

SpecServe == InitServe /\ [][NextServe]_vars

(***************************************************************************)
(* The server with a configured mapping whose local path is no string:     *)
(* every build gets through its scan and throws while inserting.           *)
(***************************************************************************)
InitConfigError ==
  /\ opts \in {[cssMappings |-> MapThemeThenNull, sourceFolder |-> sf, watchCSS |-> TRUE,
                 injectCSSReload |-> TRUE] : sf \in SourceFolders}
  /\ fs \in [AbsFiles -> 0..MaxBuildVer]
  /\ cssMappings = <<>>
  /\ pending = EmptyBag
  /\ phase = "new"
  /\ events = 0
  /\ complete = <<>>
  /\ sameDisk = FALSE
  /\ resp = NoResp
  /\ probe = "none"
  /\ quiet = FALSE
  /\ unseen = FALSE
  /\ ProxyIdle
  /\ LogIdle

NextConfigError ==
  \/ DiskStepBuild
  \/ \E order \in GlobOrders(fs, opts.sourceFolder) : Start(order)
  \/ \E order \in GlobOrders(fs, opts.sourceFolder) : WatcherChange(order)
  \/ \E order \in BagToSet(pending) : FailInsert(order)
  \/ \E order \in BagToSet(pending) : FailScan(order)
  \/ \E outcome \in ProbeOutcomes : ProbeSettles(outcome)
  \/ \E rq \in BuildTimeRequests : HandleRequest(rq[1], rq[2], FALSE)

SpecConfigError == InitConfigError /\ [][NextConfigError]_vars


(***************************************************************************)
(* The proxy: onProxyRes, the patched res.write and res.end, onError.      *)
(*                                                                         *)
(* A body on the wire is a sequence of byte tokens, a body in a JavaScript *)
(* string a sequence of character tokens.  "C3" "A9" are the two bytes of  *)
(* one character, "e'"; a byte that decodes to nothing becomes "U+FFFD",   *)
(* three bytes when encoded again.  The markup tokens are ASCII.           *)
(***************************************************************************)
\* the length of cssReloadScript, which is ASCII
ScriptBytes == 706

Script == "<script>"

BodyClose == "</body>"

HtmlClose == "</html>"

\* the body of the 502 answer; its target is options.productionUrl
ErrorJson == <<"{error: Proxy error, target: ", ProductionUrl, "}">>

\* the bytes of one token on the wire
ByteLen(tok) ==
  CASE tok = Script -> ScriptBytes
    [] tok \in {BodyClose, HtmlClose} -> 7
    [] tok = "<p>" -> 3
    [] tok \in {"C3", "A9", "EF", "BF", "BD"} -> 1
    [] tok = "{error: Proxy error, target: " -> 29
    [] tok = ProductionUrl -> 20
    [] tok = "}" -> 1

RECURSIVE WireLength(_)
WireLength(bytes) ==
  IF bytes = <<>> THEN 0 ELSE ByteLen(Head(bytes)) + WireLength(Tail(bytes))

\* chunk.toString()
RECURSIVE Decode(_)
Decode(bytes) ==
  IF bytes = <<>> THEN <<>>
  ELSE IF Len(bytes) > 1 /\ bytes[1] = "C3" /\ bytes[2] = "A9"
  THEN <<"e'">> \o Decode(SubSeq(bytes, 3, Len(bytes)))
  ELSE IF bytes[1] \in {"C3", "A9", "EF", "BF", "BD"}
  THEN <<"U+FFFD">> \o Decode(Tail(bytes))
  ELSE <<bytes[1]>> \o Decode(Tail(bytes))

\* Buffer.from(str)
RECURSIVE Encode(_)
Encode(str) ==
  IF str = <<>> THEN <<>>
  ELSE IF str[1] = "e'" THEN <<"C3", "A9">> \o Encode(Tail(str))
  ELSE IF str[1] = "U+FFFD" THEN <<"EF", "BF", "BD">> \o Encode(Tail(str))
  ELSE <<str[1]>> \o Encode(Tail(str))

\* the bytes one character takes in UTF-8
Utf8Bytes(ch) == IF ch = "e'" THEN 2 ELSE IF ch = "U+FFFD" THEN 3 ELSE ByteLen(ch)

\* Buffer.byteLength(str)
RECURSIVE ByteLength(_)
ByteLength(str) ==
  IF str = <<>> THEN 0 ELSE Utf8Bytes(Head(str)) + ByteLength(Tail(str))

\* a rewriter that leaves the upstream's Content-Length in place
UpstreamContentLength(str) == upstream.contentLength

\* the value given to the Content-Length header for the rewritten body
NewContentLength(str) == ByteLength(str)

\* str.replace(t, r) with a string t: the first occurrence alone
ReplaceFirst(str, t, r) ==
  LET i == IndexOf(str, t)
  IN IF i = 0 THEN str
     ELSE SubSeq(str, 1, i - 1) \o r \o SubSeq(str, i + Len(t), Len(str))

\* the replacement in the try block of res.end
Inject(str) ==
  IF Includes(str, <<BodyClose>>)
  THEN ReplaceFirst(str, <<BodyClose>>, <<Script, BodyClose>>)
  ELSE IF Includes(str, <<HtmlClose>>)
  THEN ReplaceFirst(str, <<HtmlClose>>, <<Script, HtmlClose>>)
  ELSE str

\* res.end is a plain function, called as a method of the response: inside it
\* `this` is the response, which has no log method
ThisOfEndHasLog == FALSE

HtmlType == <<"text/html", ";", "charset=utf-8">>

CssType == <<"text/css">>

\* the upstream sent no content-type header
NoType == <<>>

\* the bodies the upstream sends, in chunks
HtmlBodies ==
  { << <<"<p>", BodyClose, HtmlClose>> >>,
    << <<"<p>", BodyClose>>, <<"<p>", BodyClose, HtmlClose>> >>,
    << <<"<p>", HtmlClose>> >>,
    << <<"<p>">> >>,
    << <<"C3", "A9", BodyClose>> >>,
    << <<"<p>", "C3">>, <<"A9", BodyClose>> >>,
    << <<"<p>", "C3">>, <<"A9">> >> }

RECURSIVE ChunksLength(_)
ChunksLength(chunks) ==
  IF chunks = <<>> THEN 0 ELSE WireLength(Head(chunks)) + ChunksLength(Tail(chunks))

UpstreamResponses ==
  {[contentType |-> HtmlType, contentLength |-> ChunksLength(c), cacheControl |-> "max-age=3600",
    pragma |-> "", expires |-> "", chunks |-> c] : c \in HtmlBodies}
  \cup
  {[contentType |-> CssType, contentLength |-> ChunksLength(c), cacheControl |-> "max-age=3600",
    pragma |-> "public", expires |-> "Thu, 31 Dec 2037 23:55:55 GMT", chunks |-> c] :
     c \in {<< <<"<p>">> >>, << <<"<p>">>, <<"<p>">> >>}}
  \cup
  {[contentType |-> NoType, contentLength |-> ChunksLength(c), cacheControl |-> "",
    pragma |-> "", expires |-> "", chunks |-> c] : c \in {<< <<"<p>", BodyClose>> >>}}

\* the steps of the try block that may throw
FailPoints == {"none", "replace", "setHeader", "write"}

\* the proxy middleware hands a request to the proxy
ProxyBegin(u) ==
  /\ phase = "listening"
  /\ px = "idle"
  /\ px' = "connecting"
  /\ upstream' = u
  /\ res' = FreshRes
  /\ patched' = FALSE
  /\ body' = <<>>
  /\ buffered' = <<>>
  /\ received' = <<>>
  /\ failure' = "none"
  /\ errored' = FALSE
  /\ UNCHANGED <<serverVars, logVars>>

\* the headers of the upstream as they came
HeadersAsSent(u) ==
  [contentType |-> u.contentType, cacheControl |-> u.cacheControl, pragma |-> u.pragma,
   expires |-> u.expires]

\* proxyRes.headers after onProxyRes overwrote the three caching headers; the
\* proxy copies them to the response
ForwardedHeaders(u) ==
  [contentType |-> u.contentType, cacheControl |-> "no-cache, no-store, must-revalidate",
   pragma |-> "no-cache", expires |-> "0"]

\* a test that looks at the content type alone
EngagedForEveryHtml(contentType, o) == Includes(contentType, <<"text/html">>)

\* the test that decides whether onProxyRes replaces res.write and res.end
RewriterEngaged(contentType, o) ==
  Includes(contentType, <<"text/html">>) /\ o.injectCSSReload # FALSE

\* the upstream's headers arrive: onProxyRes overwrites the caching headers and
\* may patch the response; the proxy then copies the headers to the response
OnProxyRes ==
  /\ px = "connecting"
  /\ px' = "streaming"
  /\ res' = [res EXCEPT
       !.status = 200,
       !.headers = ForwardedHeaders(upstream),
       !.contentLength = upstream.contentLength]
  /\ patched' = RewriterEngaged(upstream.contentType, opts)
  /\ body' = <<>>
  /\ UNCHANGED <<upstream, buffered, received, failure, errored>>
  /\ UNCHANGED <<serverVars, logVars>>

\* a replacement of res.write that buffers the chunk and passes it on as well
WriteThrough(r, chunk) == [r EXCEPT !.headersSent = TRUE, !.sent = r.sent \o chunk]

\* the response after the replacement of res.write ran: it returns true and
\* touches nothing but body
PatchedWrite(r, chunk) == r

\* the proxy pipes a chunk: res.write, which buffers when it is patched
UpstreamChunk ==
  /\ px = "streaming"
  /\ upstream.chunks # <<>>
  /\ upstream' = [upstream EXCEPT !.chunks = Tail(upstream.chunks)]
  /\ IF patched
     THEN /\ body' = body \o Decode(Head(upstream.chunks))
          /\ res' = PatchedWrite(res, Head(upstream.chunks))
     ELSE /\ body' = body
          /\ res' = [res EXCEPT !.headersSent = TRUE,
                                !.sent = res.sent \o Head(upstream.chunks)]
  /\ received' = received \o Head(upstream.chunks)
  /\ UNCHANGED <<px, patched, buffered, failure, errored>>
  /\ UNCHANGED <<serverVars, logVars>>

\* the patched res.end; r is the response it is called on, failAt the step of
\* its try block that throws.  The catch block logs through this.log first.
PatchedEnd(r, chunk, failAt) ==
  LET found == body \o Decode(chunk)
      replaced == Inject(found)
      left == IF failAt = "replace" THEN found ELSE replaced
      header == IF failAt \in {"none", "write"} THEN NewContentLength(replaced) ELSE r.contentLength
  IN /\ buffered' = found
     /\ received' = received \o chunk
     /\ failure' = failAt
     /\ body' = left
     /\ IF failAt = "none"
        THEN /\ res' = [r EXCEPT !.contentLength = header, !.headersSent = TRUE,
                                 !.sent = r.sent \o Encode(replaced), !.finished = TRUE]
             /\ px' = "done"
             /\ phase' = phase
        ELSE IF ThisOfEndHasLog
        THEN /\ res' = [r EXCEPT !.contentLength = header, !.headersSent = TRUE,
                                 !.sent = r.sent \o Encode(left), !.finished = TRUE]
             /\ px' = "done"
             /\ phase' = phase
        ELSE /\ res' = [r EXCEPT !.contentLength = header]
             /\ px' = "threw"
             /\ phase' = "crashed"

\* the upstream's body ends: the proxy calls res.end()
UpstreamEnd(failAt) ==
  /\ px = "streaming"
  /\ upstream.chunks = <<>>
  /\ IF patched
     THEN PatchedEnd(res, <<>>, failAt)
     ELSE /\ failAt = "none"
          /\ res' = [res EXCEPT !.headersSent = TRUE, !.finished = TRUE]
          /\ px' = "done"
          /\ UNCHANGED <<body, buffered, received, failure, phase>>
  /\ UNCHANGED <<upstream, patched, errored>>
  /\ UNCHANGED <<opts, fs, cssMappings, pending, events, complete, sameDisk, resp, probe, quiet,
                  unseen, logVars>>

\* onError: the upstream refused, timed out or reset, before its headers or in
\* the middle of its body
ProxyError(failAt) ==
  /\ px \in {"connecting", "streaming"}
  /\ errored' = TRUE
  /\ IF ~res.headersSent
     THEN LET r == [res EXCEPT !.status = 502,
                               !.headers = [res.headers EXCEPT !.contentType = <<"application/json">>],
                               !.contentLength = WireLength(ErrorJson)]
          IN IF patched
             THEN PatchedEnd(r, ErrorJson, failAt)
             ELSE /\ failAt = "none"
                  /\ res' = [r EXCEPT !.headersSent = TRUE, !.sent = ErrorJson, !.finished = TRUE]
                  /\ px' = "done"
                  /\ received' = received \o ErrorJson
                  /\ UNCHANGED <<body, buffered, failure, phase>>
     ELSE /\ failAt = "none"
          /\ px' = "hung"
          /\ UNCHANGED <<res, body, buffered, received, failure, phase>>
  /\ UNCHANGED <<upstream, patched>>
  /\ UNCHANGED <<opts, fs, cssMappings, pending, events, complete, sameDisk, resp, probe, quiet,
                  unseen, logVars>>

\* the exchange is over; the next request may be forwarded
ProxyRest ==
  /\ px \in {"done", "hung"}
  /\ px' = "idle"
  /\ upstream' = NoUpstream
  /\ res' = FreshRes
  /\ patched' = FALSE
  /\ body' = <<>>
  /\ buffered' = <<>>
  /\ received' = <<>>
  /\ failure' = "none"
  /\ errored' = FALSE
  /\ UNCHANGED <<serverVars, logVars>>

InitProxy ==
  /\ opts \in {[DefaultOptions EXCEPT !.injectCSSReload = b] : b \in BOOLEAN}
  /\ fs = [f \in AbsFiles |-> 0]
  /\ cssMappings = <<>>
  /\ complete = <<>>
  /\ sameDisk = FALSE
  /\ pending = EmptyBag
  /\ phase = "listening"
  /\ events = 0
  /\ resp = NoResp
  /\ probe = "pending"
  /\ quiet = FALSE
  /\ unseen = FALSE
  /\ ProxyIdle
  /\ LogIdle

NextProxy ==
  \/ \E u \in UpstreamResponses : ProxyBegin(u)
  \/ OnProxyRes
  \/ UpstreamChunk
  \/ \E failAt \in FailPoints : UpstreamEnd(failAt)
  \/ \E failAt \in FailPoints : ProxyError(failAt)
  \/ ProxyRest

SpecProxy == InitProxy /\ [][NextProxy]_vars

(***************************************************************************)
(* log(message, level).                                                    *)
(***************************************************************************)
\* the bound on the calls of log that are followed
MaxLog == 2

\* const levels = { debug: 0, info: 1, warn: 2, error: 3 }
levels == [debug |-> 0, info |-> 1, warn |-> 2, error |-> 3]

\* what levels[name] gives for a name that is no key
Undefined == -1

\* levels[name]
LevelOf(name) == IF name \in DOMAIN levels THEN levels[name] ELSE Undefined

\* v || 1: the default stands in for every falsy value, undefined and 0
OrOne(v) == IF v = Undefined \/ v = 0 THEN 1 ELSE v

\* const currentLevel = levels[this.options.logLevel] || 1
currentLevel == OrOne(LevelOf(logLevel))

\* const messageLevel = levels[level] || 1
messageLevel(level) == OrOne(LevelOf(level))

\* the level names a call passes
MessageLevels == {"debug", "info", "warn", "error"}

\* the values of options.logLevel: the four names and one that is none of them
LogLevelOptions == MessageLevels \cup {"silent"}

\* two of the messages the server logs
LogMessages == {"[CSS Check] Requested", "Proxy error"}

\* log(message, level)
Log(message, level) ==
  /\ Len(logged) < MaxLog
  /\ logged' = Append(logged, [message |-> message, level |-> level])
  /\ console' = IF messageLevel(level) >= currentLevel THEN Append(console, message) ELSE console
  /\ UNCHANGED <<logLevel, serverVars, proxyVars>>

InitLog ==
  /\ opts = DefaultOptions
  /\ fs = [f \in AbsFiles |-> 0]
  /\ cssMappings = <<>>
  /\ complete = <<>>
  /\ sameDisk = FALSE
  /\ pending = EmptyBag
  /\ phase = "new"
  /\ events = 0
  /\ resp = NoResp
  /\ probe = "none"
  /\ quiet = FALSE
  /\ unseen = FALSE
  /\ ProxyIdle
  /\ logLevel \in LogLevelOptions
  /\ console = <<>>
  /\ logged = <<>>

NextLog == \E message \in LogMessages, level \in MessageLevels : Log(message, level)

SpecLog == InitLog /\ [][NextLog]_vars

(***************************************************************************)
(* The claims.                                                             *)
(***************************************************************************)
AbsHeader == PathResolve(BaseDir, FHeader)
AbsNav == PathResolve(BaseDir, FNav)

\* a request has just been answered
Answered == resp.kind # "none"

C1_AnsweredLocally(method, path) ==
  \/ method = "GET" /\ path \in {StatusPath, PStatusSlash, PStatusUpper}
  \/ path \in {StatusPath, PFavicon}
  \/ StartsWith(path, <<"/", "_next", "/">>)

C3_ExactKeyWins ==
  (/\ Answered
   /\ EndsWith(resp.path, CssExt)
   /\ MapHas(cssMappings, resp.path)
   /\ ExistsSync(fs, MapGet(cssMappings, resp.path))) =>
    /\ resp.kind = "local"
    /\ resp.tier = "exact"
    /\ resp.file = MapGet(cssMappings, resp.path)

C3_Witness ==
  /\ resp.kind = "local" /\ resp.tier = "exact"
  /\ \E i \in 1..(MapIndex(cssMappings, resp.path) - 1) :
       /\ PartialMatch(resp.path, cssMappings[i].key)
       /\ ExistsSync(fs, cssMappings[i].target)
       /\ cssMappings[i].target # resp.file

\* the configured mappings whose request path is also guessed for a file of the scan
C4_Contested(order) ==
  {i \in 1..Len(opts.cssMappings) :
     \E j \in 1..Len(order) :
       /\ FolderOf(order[j], opts.sourceFolder).matched
       /\ \E k \in 1..5 :
            Patterns(FolderOf(order[j], opts.sourceFolder).folder)[k] = opts.cssMappings[i][1]}

\* C4 as stated: after a build, a request path that is configured and is also
\* guessed for a discovered file maps to the configured file, whatever the
\* order of discovery.
C4_ExplicitAlwaysWins ==
  [][\A order \in BagToSet(pending) :
       FinishBuild(order) =>
         \A i \in C4_Contested(order) :
           /\ MapHas(cssMappings', opts.cssMappings[i][1])
           /\ MapGet(cssMappings', opts.cssMappings[i][1])
                = PathResolve(BaseDir, opts.cssMappings[i][2])]_vars

\* C4 amended: after a build, a request path that is configured and is also
\* guessed for a discovered file maps to the configured file, whatever the
\* order of discovery, provided the configured file exists when the build
\* inserts the configured mappings (a mapping whose file is missing is skipped).
C4_ExplicitWinsWhenItsFileExists ==
  [][\A order \in BagToSet(pending) :
       (pending' # pending /\ events' = events /\ FinishBuild(order)) =>
         \A i \in C4_Contested(order) :
           ExistsSync(fs, PathResolve(BaseDir, opts.cssMappings[i][2])) =>
             /\ MapHas(cssMappings', opts.cssMappings[i][1])
             /\ MapGet(cssMappings', opts.cssMappings[i][1])
                  = PathResolve(BaseDir, opts.cssMappings[i][2])]_vars

\* the configured file holds its key although the scan reported another file
\* of the folder first
C4_Witness ==
  /\ opts.cssMappings = MapHeaderToNav
  /\ MapHas(cssMappings, PAssetsHeader) /\ MapGet(cssMappings, PAssetsHeader) = AbsNav
  /\ MapHas(cssMappings, PCssHeader) /\ MapGet(cssMappings, PCssHeader) = AbsHeader

\* C5: when the last build scanned and read the disk as it is now and left the
\* present table, a rebuild whose scan reports the files of that same disk, in
\* whatever order, leaves the same table: same keys, same file for each key.
C5_RebuildIdempotent ==
  [][\A order \in BagToSet(pending) :
       (/\ FinishBuild(order)
        /\ sameDisk
        /\ order \in GlobOrders(fs, opts.sourceFolder)) =>
         /\ MapKeys(cssMappings') = MapKeys(cssMappings)
         /\ \A k \in MapKeys(cssMappings) : MapGet(cssMappings', k) = MapGet(cssMappings, k)]_vars

\* C10: a stylesheet served from a local file, by whichever tier, carries what
\* the file holds at the time of the request, Content-Type text/css and the
\* three headers that forbid caching.
C10_LocalServeIsFresh ==
  resp.kind = "local" =>
    /\ resp.tier \in {"exact", "partial", "direct"}
    /\ resp.body = fs[resp.file]
    /\ resp.status = 200
    /\ resp.headers.contentType = "text/css"
    /\ resp.headers.cacheControl = "no-cache, no-store, must-revalidate"
    /\ resp.headers.pragma = "no-cache"
    /\ resp.headers.expires = "0"

\* a partial hit serves content that is not the first the file held
C10_Witness ==
  /\ resp.kind = "local" /\ resp.tier = "partial"
  /\ resp.body = 2 /\ fs[resp.file] = 2

\* the tokens of a sequence
Range(seq) == {seq[i] : i \in 1..Len(seq)}

\* C6: every HTML response the rewriter has finished carries a Content-Length
\* equal to the byte length of the body that was emitted after the injection.
C6_ContentLengthIsEmittedLength ==
  (patched /\ res.finished) => res.contentLength = WireLength(res.sent)

\* C6 witness: a finished rewritten response with the script and a two-byte
\* character in it, whose length differs from the one the upstream announced.
C6_Witness ==
  /\ patched /\ res.finished /\ failure = "none" /\ ~errored
  /\ Script \in Range(res.sent) /\ "C3" \in Range(res.sent)
  /\ res.contentLength = WireLength(res.sent)
  /\ res.contentLength # upstream.contentLength

\* C7: every buffered HTML body with at least one closing body tag is emitted
\* with the reload script inserted exactly once, immediately before the last
\* closing body tag.
C7_ScriptBeforeLastBodyClose ==
  LET at == {i \in 1..Len(buffered) : buffered[i] = BodyClose}
      last == CHOOSE i \in at : \A j \in at : j <= i
      expected == SubSeq(buffered, 1, last - 1) \o <<Script>>
                    \o SubSeq(buffered, last, Len(buffered))
  IN (patched /\ res.finished /\ failure = "none" /\ at # {})
       => /\ res.sent = Encode(expected)
          /\ Cardinality({i \in 1..Len(res.sent) : res.sent[i] = Script}) = 1

\* C8: when a step of the rewrite fails, the response is still completed and
\* its body is the buffered upstream body, without the injected script.
C8_RewriteFailureFlushesOriginal ==
  (failure # "none" /\ ~errored)
    => /\ res.finished
       /\ res.sent = Encode(buffered)
       /\ Script \notin Range(res.sent)

\* C9: every forwarding failure gives the client a finished 502 response whose
\* JSON body names the upstream target, and the server goes on serving.
C9_ForwardingFailureAnswers502 ==
  (errored /\ failure = "none")
    => /\ res.finished
       /\ res.status = 502
       /\ res.sent = ErrorJson
       /\ ProductionUrl \in Range(res.sent)
       /\ phase = "listening"

\* C11: a rebuild of the running server that fails, in its scan or while it
\* inserts entries, leaves the table that lookups read exactly as it was before.
C11_FailedRebuildKeepsTable ==
  [][\A order \in BagToSet(pending) :
       (phase = "listening" /\ (FailScan(order) \/ FailInsert(order)))
         => cssMappings' = cssMappings]_vars

\* the paths the proxy middleware's skip list names
C12_Skipped(path) ==
  path = StatusPath \/ path = PFavicon \/ StartsWith(path, <<"/", "_next", "/">>)

C13_Explicit(key) ==
  {i \in 1..Len(opts.cssMappings) :
     /\ opts.cssMappings[i][1] = key
     /\ ExistsSync(fs, PathResolve(BaseDir, opts.cssMappings[i][2]))}

C14_StartNeverBlocked ==
  /\ [][\A order \in BagToSet(pending) :
          (phase = "starting" /\ (FailScan(order) \/ FailInsert(order)))
            => (phase' = "listening" /\ cssMappings' = <<>>)]_vars
  /\ [](probe # "none" => phase = "listening")
  /\ []((Answered /\ EndsWith(resp.path, CssExt)) =>
          resp.tier = MatchResolve(resp.path, cssMappings, fs, opts.sourceFolder).tier)

\* C15: a request for a stylesheet never fails because a mapped file is absent,
\* also when the file goes between the existence check and the read: it is
\* answered from a file that is there, or handed on as a miss, never with 500.
C15_AbsentFileIsAMiss ==
  (Answered /\ EndsWith(resp.path, CssExt)) =>
    /\ resp.kind # "error"
    /\ resp.status # 500
    /\ resp.kind = "local" => ExistsSync(fs, resp.file)

\* C16: at most one buildCSSMapping run is in flight at any time; a 'change'
\* event that comes while one is running starts no second run.
C16_AtMostOneRebuildInFlight ==
  BagCardinality(pending) <= 1

\* C17: when a rebuild finishes and leaves none in flight, with no 'change'
\* event undelivered and the disk as it was at the last such event, the table
\* is one that a fresh build of the disk as it is would leave; a rebuild whose
\* scan is older does not undo the result of one whose scan is newer.
C17_ConvergesToFreshBuild ==
  [][\A order \in BagToSet(pending) :
       (/\ pending' = EmptyBag
        /\ phase = "listening"
        /\ events = 0
        /\ quiet
        /\ FinishBuild(order)) =>
         cssMappings' \in
           {BuildTable(opts, fresh, fs) : fresh \in GlobOrders(fs, opts.sourceFolder)}]_vars

\* the entries the partial tier serves from under the stated test: the path
\* contains the key without its ".css", or the two final segments are equal
C18_StatedHits ==
  {i \in 1..Len(cssMappings) :
     /\ \/ Includes(resp.path, StripCssExt(cssMappings[i].key))
        \/ LastSegment(resp.path) = LastSegment(cssMappings[i].key)
     /\ ExistsSync(fs, cssMappings[i].target)}

\* C18: the partial tier hits an entry exactly when the request path contains
\* the key without its ".css" or has the key's final segment as its own final
\* segment: a partial answer comes from such an entry, and a request that the
\* partial tier passed on had no such entry.
C18_PartialHitsAsStated ==
  (Answered /\ EndsWith(resp.path, CssExt) /\ resp.kind # "error") =>
    /\ resp.tier = "partial" => \E i \in C18_StatedHits : cssMappings[i].target = resp.file
    /\ resp.tier \in {"direct", "none"} => C18_StatedHits = {}

\* the entries whose key matches the request path in the partial tier
C19_Matching == {i \in 1..Len(cssMappings) : PartialMatch(resp.path, cssMappings[i].key)}

\* C19 as stated: a partial answer comes from the first entry, in insertion
\* order, whose key matches the request path.
C19_FirstMatchingEntryWins ==
  (resp.kind = "local" /\ resp.tier = "partial") =>
    \E i \in C19_Matching :
      /\ \A j \in C19_Matching : i <= j
      /\ resp.file = cssMappings[i].target

\* C19 amended: a partial answer comes from the first entry, in insertion
\* order, whose key matches the request path and whose file exists at the time
\* of the request; matching entries before it are passed over only because
\* their file is missing, and later ones are never chosen over it.
C19_FirstMatchingExistingEntryWins ==
  (resp.kind = "local" /\ resp.tier = "partial") =>
    \E i \in C19_Matching :
      /\ ExistsSync(fs, cssMappings[i].target)
      /\ \A j \in C19_Matching : j < i => ~ExistsSync(fs, cssMappings[j].target)
      /\ resp.file = cssMappings[i].target

\* the first of two matching entries with different files, both on the disk,
\* has answered
C19_Witness ==
  /\ resp.kind = "local" /\ resp.tier = "partial"
  /\ \E i, j \in C19_Matching :
       /\ i < j
       /\ ExistsSync(fs, cssMappings[i].target) /\ ExistsSync(fs, cssMappings[j].target)
       /\ cssMappings[i].target # cssMappings[j].target
       /\ resp.file = cssMappings[i].target

\* the tier that answers the request just handled, each tier's test taken by
\* itself: "none" when all three miss
C20_FirstHit ==
  LET direct == DirectPath(resp.path, opts.sourceFolder)
  IN IF MapHas(cssMappings, resp.path) /\ ExistsSync(fs, MapGet(cssMappings, resp.path))
     THEN "exact"
     ELSE IF \E i \in 1..Len(cssMappings) :
               PartialMatch(resp.path, cssMappings[i].key) /\ ExistsSync(fs, cssMappings[i].target)
     THEN "partial"
     ELSE IF ExistsSync(fs, direct) /\ EndsWith(direct, CssExt)
     THEN "direct"
     ELSE "none"

\* the tiers tried up to the one that answered
C20_TriedUpTo(tier) ==
  CASE tier = "exact" -> <<"exact">>
    [] tier = "partial" -> <<"exact", "partial">>
    [] OTHER -> <<"exact", "partial", "direct">>

C21_FallbackMarkerOrUnmodified ==
  LET at == IndexOf(received, <<HtmlClose>>)
  IN (/\ patched /\ res.finished /\ failure = "none" /\ ~errored
      /\ ~Includes(buffered, <<BodyClose>>)) =>
       IF Includes(buffered, <<HtmlClose>>)
       THEN res.sent = SubSeq(received, 1, at - 1) \o <<Script>>
                         \o SubSeq(received, at, Len(received))
       ELSE res.sent = received

\* C22: while an HTML response is rewritten nothing reaches the client before
\* the upstream's response is over: a chunk that comes earlier is appended to
\* the buffer and the response is left alone, and the body is written once,
\* when the response is ended, with Content-Length already set to its length.
C22_NothingEmittedBeforeEnd ==
  /\ []((patched /\ ~res.finished) => (res.sent = <<>> /\ ~res.headersSent))
  /\ [][(patched /\ px = "streaming") =>
          /\ UpstreamChunk =>
               (res' = res /\ body' = body \o Decode(Head(upstream.chunks)))
          /\ res'.sent # res.sent =>
               /\ res.sent = <<>>
               /\ upstream.chunks = <<>> \/ errored'
               /\ res'.finished
               /\ res'.contentLength = WireLength(res'.sent)]_vars

\* a body that came in two chunks has been emitted in one piece at the end
C22_Witness ==
  /\ patched /\ res.finished /\ failure = "none" /\ ~errored
  /\ received = <<"<p>", BodyClose, "<p>", BodyClose, HtmlClose>>
  /\ res.sent = <<"<p>", Script, BodyClose, "<p>", BodyClose, HtmlClose>>

C24_ForwardedResponsesUncacheable ==
  ((px \in {"streaming", "done"} /\ ~errored) \/ (res.headersSent /\ res.status = 200)) =>
    /\ res.headers.cacheControl = LocalHeaders.cacheControl
    /\ res.headers.pragma = LocalHeaders.pragma
    /\ res.headers.expires = LocalHeaders.expires
    /\ res.headers.cacheControl = "no-cache, no-store, must-revalidate"
    /\ res.headers.pragma = "no-cache"
    /\ res.headers.expires = "0"

\* a stylesheet the upstream allowed to be cached has been forwarded
C24_Witness ==
  /\ px = "done" /\ ~errored /\ res.finished /\ res.sent # <<>>
  /\ upstream.contentType = CssType
  /\ upstream.cacheControl = "max-age=3600" /\ upstream.pragma = "public"
  /\ upstream.expires # "0"
  /\ res.headers.cacheControl = "no-cache, no-store, must-revalidate"

\* the name of the directory a file lies in: what stands between its last two
\* slashes
C25_ParentOf(file) ==
  LET dir == SubSeq(file, 1, LastSlash(file) - 1)
  IN LastSegment(dir)

\* C25: the folder name a build derives for a discovered file, and guesses the
\* keys from, is the name of the directory the file lies in, at whatever depth
\* under the source folder.
C25_GroupIsImmediateParent ==
  [][\A order \in BagToSet(pending) :
       (pending' # pending /\ events' = events /\ FinishBuild(order)) =>
         \A j \in 1..Len(order) :
           LET g == FolderOf(order[j], opts.sourceFolder)
           IN g.matched =>
                /\ g.folder = C25_ParentOf(order[j])
                /\ \A k \in 1..5 : MapHas(cssMappings', Patterns(C25_ParentOf(order[j]))[k])]_vars

\* C26: every entry of the table a build leaves maps to a file that is on the
\* disk when the build inserts it, the configured entries and the guessed ones
\* alike, also when a file is deleted between the scan and the insertion.
C26_EntriesExistWhenInserted ==
  [][\A order \in BagToSet(pending) :
       (pending' # pending /\ events' = events /\ FinishBuild(order)) =>
         \A i \in 1..Len(cssMappings') : ExistsSync(fs, cssMappings'[i].target)]_vars

\* the configured mappings whose file is missing when the build inserts them
C27_Skipped ==
  {i \in 1..Len(opts.cssMappings) :
     ~ExistsSync(fs, PathResolve(BaseDir, opts.cssMappings[i][2]))}

\* the file that auto-detection gives a key in a scan: the first file reported
\* whose folder has the key among its five guessed paths; NoFile when none has
C27_AutoFile(key, order) ==
  LET has == {j \in 1..Len(order) :
                /\ FolderOf(order[j], opts.sourceFolder).matched
                /\ \E k \in 1..5 :
                     Patterns(FolderOf(order[j], opts.sourceFolder).folder)[k] = key}
  IN IF has = {} THEN NoFile
     ELSE PathResolve(BaseDir, order[CHOOSE j \in has : \A l \in has : j <= l])

\* C27: a configured mapping whose file is missing when the build inserts it is
\* skipped and the build goes on: the table it leaves holds every configured
\* mapping whose file exists, holds every path guessed for a discovered file,
\* and holds nothing that stems from the skipped mapping (its key is there
\* only if auto-detection guessed it, and then with the discovered file).
C27_MissingExplicitTargetSkipped ==
  [][\A order \in BagToSet(pending) :
       (pending' # pending /\ events' = events /\ FinishBuild(order) /\ C27_Skipped # {}) =>
         /\ \A e \in (1..Len(opts.cssMappings)) \ C27_Skipped :
              /\ MapHas(cssMappings', opts.cssMappings[e][1])
              /\ MapGet(cssMappings', opts.cssMappings[e][1])
                   = PathResolve(BaseDir, opts.cssMappings[e][2])
         /\ \A j \in 1..Len(order), k \in 1..5 :
              LET g == FolderOf(order[j], opts.sourceFolder)
                  key == Patterns(g.folder)[k]
              IN g.matched =>
                   /\ MapHas(cssMappings', key)
                   /\ C13_Explicit(key) = {} => MapGet(cssMappings', key) = C27_AutoFile(key, order)
         /\ \A i \in C27_Skipped :
              LET key == opts.cssMappings[i][1]
              IN MapHas(cssMappings', key) =>
                   /\ C27_AutoFile(key, order) # NoFile
                   /\ MapGet(cssMappings', key) = C27_AutoFile(key, order)]_vars

\* the build skipped /theme/main.css, whose file is missing, and kept the
\* other configured mapping and the guessed paths
C27_Witness ==
  /\ opts.cssMappings = MapThemeAndCss /\ phase = "listening" /\ sameDisk
  /\ fs[AbsNav] = 0 /\ fs[AbsHeader] > 0
  /\ ~MapHas(cssMappings, <<"/", "theme", "/", "main", ".", "css">>)
  /\ MapHas(cssMappings, PCssHeader) /\ MapGet(cssMappings, PCssHeader) = AbsHeader
  /\ MapHas(cssMappings, PAssetsHeader) /\ MapGet(cssMappings, PAssetsHeader) = AbsHeader

\* C28: with the watcher running, after every creation, modification or
\* deletion of a stylesheet under the source folder a buildCSSMapping run is
\* eventually started.
C28_EveryDiskEventStartsRebuild == unseen ~> ~unseen

\* C29: handling a request leaves the table as it was, its keys and the file
\* of each key, whatever the request is: a hit of any tier, a miss that is
\* forwarded, a path the proxy skips, the status route, a failed read.
C29_RequestsLeaveTable ==
  [][(/\ resp'.kind # "none"
      /\ \E gone \in BOOLEAN : HandleRequest(resp'.method, resp'.path, gone)) =>
       /\ cssMappings' = cssMappings
       /\ MapKeys(cssMappings') = MapKeys(cssMappings)
       /\ \A k \in MapKeys(cssMappings) : MapGet(cssMappings', k) = MapGet(cssMappings, k)]_vars

\* a request failed with 500 on a file that went away, and the entry that led
\* to the file is still in the table
C29_Witness ==
  /\ resp.kind = "error" /\ resp.status = 500 /\ ~ExistsSync(fs, resp.file)
  /\ cssMappings = complete
  /\ \E i \in 1..Len(cssMappings) : cssMappings[i].target = resp.file

\* the place of a level name in the order debug < info < warn < error
C30_Rank(name) ==
  CASE name = "debug" -> 0 [] name = "info" -> 1 [] name = "warn" -> 2 [] name = "error" -> 3

\* the calls whose level is at or above the configured one
C30_AtOrAbove(call) == C30_Rank(call.level) >= C30_Rank(logLevel)

\* C30: with logLevel one of debug, info, warn, error, a call of log emits its
\* message exactly when its level is at or above logLevel in the order
\* debug < info < warn < error: what was emitted is the messages of those
\* calls, in order; with logLevel info no message of level debug is emitted.
C30_EmitsIffAtOrAbove ==
  logLevel \in MessageLevels =>
    /\ Len(console) = Len(SelectSeq(logged, C30_AtOrAbove))
    /\ \A i \in 1..Len(console) : console[i] = SelectSeq(logged, C30_AtOrAbove)[i].message

=============================================================================
